---- MODULE Spec2Model ----
(***************************************************************************)
(* A model of the SQL ingestion pipeline of HLL_Stats_Tools                *)
(* (src/hll_stats_tools/sql_pipeline/ingest_events.py, sql_utils.py):      *)
(* the log folder, the SQLite store, the per-run tables last_nums and      *)
(* active_games, and the statistics computed when a match is closed; and   *)
(* of the statistics of the JSON pipeline (legacy_json/analysis_utils.py). *)
(* Spec is the pipeline run over a folder of log files; CallSpec calls     *)
(* single functions of the two pipelines on arguments of their own;        *)
(* DownloadSpec is the loop of download_sequential_logs                    *)
(* (data_acquisition/talk_to_server.py) against a remote log.              *)
(*                                                                         *)
(* Conventions.  A nullable column is None (the empty tuple) or Some(v).   *)
(* A game key f"{srv}_{n}" is the pair <<srv, n>>.  An event identifier is *)
(* the event record itself: the remote log gives one record per id, so two *)
(* records of the folder are the same event exactly when they are equal.   *)
(* Event times are whole seconds, on which int(total_seconds()) is exact.  *)
(* A content string is the sequence of its tokens.  A batch is one         *)
(* SQLAlchemy transaction; the store runs with journal_mode = OFF, so a    *)
(* run that is stopped before its commit leaves nothing of the batch or    *)
(* the rows it has flushed (once in a behaviour at most).                  *)
(***************************************************************************)
EXTENDS Integers, Sequences, FiniteSets, TLC

VARIABLES
    folder,        \* the log files, in the order of their names
    db,            \* the committed store
    last_nums,     \* run_sql_pipeline: server -> last game number
    active_games,  \* run_sql_pipeline: server -> key of its Game, or None
    pc,            \* "stopped", "running", "done" or "crashed"
    idx,           \* the number of the first file of the next batch
    nskipped,      \* files the run has skipped as already processed
    run_db0,       \* the store as the run found it, kept until a run ends
    torn,          \* a stopped transaction has left rows behind
    args,          \* a function called on its own: its name and arguments
    result,        \* what that call has returned, None before it returns
    loop           \* download_sequential_logs while it runs, else None

vars == <<folder, db, last_nums, active_games, pc, idx, nskipped, run_db0, torn,
          args, result, loop>>

----------------------------------------------------------------------------
\* Bounds of the model.

\* events in the log folder
MaxEvents == 3
\* files per batch (50 in ingest_events.py, scaled to the folder's size)
BATCH_SIZE == 2

\* the highest score of a side in a MATCH ENDED that is called on its own
MaxScore == 3
\* files in a batch that ingest_batch is called on
MaxBatchFiles == 2
\* CONNECTED/DISCONNECTED events of a player in a Game whose statistics are
\* computed on their own, and the kills and deaths of that player
MaxTransitions == 4
MaxKills == 10
MaxDeaths == 5

\* KILL and TEAM KILL events of a Game whose maps are built on their own
MaxKillEvents == 2

\* kills of one player on another in a match whose scores are computed
MaxPairKills == 2

\* game analyses in a list given to get_plot_from_analysis_list
MaxAnalyses == 2

\* download_sequential_logs: the moments of a day (relativedelta(days=1) is
\* DayLength moments) and the last moment of the remote log
DayLength == 2
MaxTime == 5

\* calc_player_stats: timedelta(minutes=5) and "game.duration - 300"
WarmupSeconds == 300

Servers == {"s1", "s2"}
Players == {"p1", "p2"}
NoPlayer == ""

None == <<>>
Some(v) == <<v>>

SeedingPhrase == "THANK YOU FOR SEEDING"

----------------------------------------------------------------------------
\* The event records of the remote log.

MatchStart(s, t) ==
    [type |-> "MATCH START", server |-> s, time |-> t,
     player1_id |-> NoPlayer, player2_id |-> NoPlayer,
     content |-> <<"MATCH START", "FOY", "WARFARE">>]

MatchEnded(s, t) ==
    [type |-> "MATCH ENDED", server |-> s, time |-> t,
     player1_id |-> NoPlayer, player2_id |-> NoPlayer,
     content |-> <<"MATCH ENDED", "FOY", "ALLIED", "(", "3", " - ", "2", ")", "AXIS">>]

\* a MATCH ENDED whose content reads "... (<a> - <b>) ...", a and b tokens
MatchEndedWith(s, t, a, b) ==
    [type |-> "MATCH ENDED", server |-> s, time |-> t,
     player1_id |-> NoPlayer, player2_id |-> NoPlayer,
     content |-> <<"MATCH ENDED", "FOY", "ALLIED", "(", a, " - ", b, ")", "AXIS">>]

\* a MATCH ENDED whose content holds no "(": split("(")[1] raises IndexError
MatchEndedNoScore(s, t) ==
    [type |-> "MATCH ENDED", server |-> s, time |-> t,
     player1_id |-> NoPlayer, player2_id |-> NoPlayer,
     content |-> <<"MATCH ENDED", "FOY">>]

\* the content of a file that json.load cannot decode, written as one record
\* that no log has
Undecodable ==
    <<[type |-> "NOT JSON", server |-> "", time |-> 0,
       player1_id |-> NoPlayer, player2_id |-> NoPlayer, content |-> <<>>]>>

\* json.load(f) returns
IsDecodable(data) == \A i \in 1..Len(data) : data[i].type # "NOT JSON"

SeedingMessage(s, t) ==
    [type |-> "MESSAGE", server |-> s, time |-> t,
     player1_id |-> "p1", player2_id |-> NoPlayer,
     content |-> <<SeedingPhrase>>]

\* a KILL of `victim` by `killer`
KillBy(s, t, killer, victim) ==
    [type |-> "KILL", server |-> s, time |-> t,
     player1_id |-> killer, player2_id |-> victim,
     content |-> <<killer, "->", victim>>]

\* a CONNECTED or DISCONNECTED of player p
Transition(s, t, type, p) ==
    [type |-> type, server |-> s, time |-> t,
     player1_id |-> p, player2_id |-> NoPlayer, content |-> <<type, p>>]

\* a KILL or TEAM KILL of `victim` by `killer` with a weapon
KillWith(s, t, type, killer, victim, weapon) ==
    [type |-> type, server |-> s, time |-> t,
     player1_id |-> killer, player2_id |-> victim, weapon |-> weapon,
     content |-> <<killer, "->", victim, "with", weapon>>]

Kill(s, t) ==
    [type |-> "KILL", server |-> s, time |-> t,
     player1_id |-> "p1", player2_id |-> "p2",
     content |-> <<"p1", "->", "p2">>]

\* The records of the remote log: on the first server a match start and a
\* match end at either of two times, a seeding message at the first and a
\* kill at the second; on the second server one match with a kill.
Events ==
    {MatchStart("s1", 0), MatchStart("s1", 1), MatchEnded("s1", 0),
     MatchEnded("s1", 1), SeedingMessage("s1", 0), Kill("s1", 1),
     MatchStart("s2", 0), MatchEnded("s2", 1), Kill("s2", 1)}

----------------------------------------------------------------------------
\* Helpers on sequences.

Range(f) == {f[i] : i \in DOMAIN f}

RECURSIVE SeqSum(_)
SeqSum(s) == IF s = <<>> THEN 0 ELSE Head(s) + SeqSum(Tail(s))

\* sorted(xs, key=event time): Python's sort is stable
RECURSIVE InsertByTime(_, _)
InsertByTime(sorted, x) ==
    IF sorted = <<>> THEN <<x>>
    ELSE IF x.time < Head(sorted).time THEN <<x>> \o sorted
    ELSE <<Head(sorted)>> \o InsertByTime(Tail(sorted), x)

RECURSIVE SortedByTime(_)
SortedByTime(xs) ==
    IF xs = <<>> THEN <<>>
    ELSE InsertByTime(SortedByTime(SubSeq(xs, 1, Len(xs) - 1)), xs[Len(xs)])

IsSortedByTime(xs) == \A i \in 1..(Len(xs) - 1) : xs[i].time <= xs[i + 1].time

----------------------------------------------------------------------------
\* Numbers.  The quotient of two integers is the fraction <<n, d>> in lowest
\* terms with d > 0; an integer k is <<k, 1>>.  Python computes the quotients
\* in binary floating point; the fractions are their exact values.

Abs(x) == IF x < 0 THEN -x ELSE x

RECURSIVE GCD(_, _)
GCD(a, b) == IF b = 0 THEN a ELSE GCD(b, a % b)

\* n / d in lowest terms, d # 0
Reduced(n, d, g) == <<(IF d < 0 THEN -n ELSE n) \div g, Abs(d) \div g>>

Frac(n, d) == Reduced(n, d, GCD(Abs(n), Abs(d)))

\* a < b, a * b, a / b (b # 0) and a - b on fractions
FracLess(a, b) == a[1] * b[2] < b[1] * a[2]

FracMul(a, b) == Frac(a[1] * b[1], a[2] * b[2])

FracDiv(a, b) == Frac(a[1] * b[2], a[2] * b[1])

FracSub(a, b) == Frac(a[1] * b[2] - b[1] * a[2], a[2] * b[2])

----------------------------------------------------------------------------
\* The store.

EmptyDb ==
    [games |-> <<>>, events |-> <<>>, files |-> {}, analyses |-> <<>>,
     game_players |-> {}, players |-> {}]

GameOf(games, key) == games[CHOOSE i \in 1..Len(games) : games[i].game_key = key]

SetGame(games, key, g) ==
    [i \in 1..Len(games) |-> IF games[i].game_key = key THEN g ELSE games[i]]

\* game.events: the rows of the events table that carry the game's key
GameEvents(events, key) == SelectSeq(events, LAMBDA r : r.game_key = Some(key))

----------------------------------------------------------------------------
\* sql_utils.py: the statistics of one player in one game.  `evs` is
\* game.events, the sequence of the game's stored events.

\* distributions: the four totals (the per-offset maps carry one entry each)
Distributions(evs, player_id) ==
    [tot_kills |->
        Cardinality({i \in 1..Len(evs) :
            evs[i].type = "KILL" /\ evs[i].player1_id = player_id}),
     tot_deaths |->
        Cardinality({i \in 1..Len(evs) :
            /\ evs[i].type = "KILL"
            /\ evs[i].player1_id # player_id
            /\ evs[i].player2_id = player_id}),
     tot_team_kills |->
        Cardinality({i \in 1..Len(evs) :
            evs[i].type = "TEAM KILL" /\ evs[i].player1_id = player_id}),
     tot_team_deaths |->
        Cardinality({i \in 1..Len(evs) :
            /\ evs[i].type = "TEAM KILL"
            /\ evs[i].player1_id # player_id
            /\ evs[i].player2_id = player_id})]

\* ev.weapon: the JSON record of an event that is no kill has no weapon
Weapon(ev) == IF "weapon" \in DOMAIN ev THEN Some(ev.weapon) ELSE None

\* a defaultdict(list) is a function from its keys to sequences;
\* d[key].append(v)
AppendAt(d, key, v) ==
    [k \in DOMAIN d \cup {key} |->
        IF k \in DOMAIN d
        THEN IF k = key THEN Append(d[k], v) ELSE d[k]
        ELSE <<v>>]

NoMaps == [dealt |-> <<>>, received |-> <<>>,
           weapons_dealt |-> <<>>, weapons_received |-> <<>>]

\* distributions, one of its two loops: the events of `type` that name the
\* player as either actor go to the maps of the first actor when player1_id
\* is the player, and else to the maps of the second actor; the key is
\* (ev.event_time - game.start_time).total_seconds()
RECURSIVE FillMaps(_, _, _, _, _)
FillMaps(maps, evs, start_time, type, player_id) ==
    IF evs = <<>> THEN maps
    ELSE FillMaps(
            IF /\ Head(evs).type = type
               /\ (Head(evs).player1_id = player_id \/ Head(evs).player2_id = player_id)
            THEN IF Head(evs).player1_id = player_id
                 THEN [maps EXCEPT
                         !.dealt = AppendAt(@, Head(evs).time - start_time,
                                            Head(evs).player2_id),
                         !.weapons_dealt = AppendAt(@, Head(evs).time - start_time,
                                                    Weapon(Head(evs)))]
                 ELSE [maps EXCEPT
                         !.received = AppendAt(@, Head(evs).time - start_time,
                                               Head(evs).player1_id),
                         !.weapons_received = AppendAt(@, Head(evs).time - start_time,
                                                       Weapon(Head(evs)))]
            ELSE maps,
            Tail(evs), start_time, type, player_id)

\* the values of all lists of a map, chain.from_iterable(d.values())
MapValues(d) == UNION {Range(d[k]) : k \in DOMAIN d}

\* the number of entries of a map: the lengths of its lists, added up
RECURSIVE SumLengths(_, _)
SumLengths(d, keys) ==
    IF keys = {} THEN 0
    ELSE LET k == CHOOSE x \in keys : TRUE
         IN  Len(d[k]) + SumLengths(d, keys \ {k})

Entries(d) == SumLengths(d, DOMAIN d)

\* how often v is in the lists of the keys
RECURSIVE CountIn(_, _, _)
CountIn(d, keys, v) ==
    IF keys = {} THEN 0
    ELSE LET k == CHOOSE x \in keys : TRUE
         IN  Cardinality({i \in 1..Len(d[k]) : d[k][i] = v})
                + CountIn(d, keys \ {k}, v)

\* dict(Counter(chain.from_iterable(d.values())))
CounterOf(d) == [v \in MapValues(d) |-> CountIn(d, DOMAIN d, v)]

\* the sum of the counts of a Counter
RECURSIVE SumCounts(_, _)
SumCounts(c, keys) ==
    IF keys = {} THEN 0
    ELSE LET k == CHOOSE x \in keys : TRUE
         IN  c[k] + SumCounts(c, keys \ {k})

Total(c) == SumCounts(c, DOMAIN c)

\* the CONNECTED/DISCONNECTED events of a player among the events of a match
TransitionsOf(evs, player_id) ==
    SelectSeq(evs, LAMBDA e : /\ e.type \in {"CONNECTED", "DISCONNECTED"}
                              /\ e.player1_id = player_id)

\* times = sorted((event.event_time, event.type) for event in timelimits)
TimesOf(timelimits) ==
    SortedByTime([i \in 1..Len(timelimits) |->
                    [time |-> timelimits[i].time, type |-> timelimits[i].type]])

\* if times[0][1] == "DISCONNECTED": times.insert(0, (actual_start_time, "CONNECTED"))
WithStart(times, actual_start_time) ==
    IF times[1].type = "DISCONNECTED"
    THEN <<[time |-> actual_start_time, type |-> "CONNECTED"]>> \o times
    ELSE times

\* if times[-1][1] == "CONNECTED": times.append((game.end_time, "DISCONNECTED"))
WithEnd(times, end_time) ==
    IF times[Len(times)].type = "CONNECTED"
    THEN Append(times, [time |-> end_time, type |-> "DISCONNECTED"])
    ELSE times

\* the connect/disconnect transitions of the player, corrected at both ends
CorrectedTimes(game, evs, player_id) ==
    WithEnd(
        WithStart(
            TimesOf(SelectSeq(evs, LAMBDA e :
                        /\ e.type \in {"CONNECTED", "DISCONNECTED"}
                        /\ e.player1_id = player_id)),
            game.start_time + WarmupSeconds),
        game.end_time[1])

\* itertools.pairwise: every two neighbours, (t1,t2), (t2,t3), ...
PairwiseSeconds(times) ==
    SeqSum([i \in 1..(Len(times) - 1) |-> times[i + 1].time - times[i].time])

HasTransitions(evs, player_id) ==
    \E i \in 1..Len(evs) : /\ evs[i].type \in {"CONNECTED", "DISCONNECTED"}
                           /\ evs[i].player1_id = player_id

\* distributions: kpm and dpm, 0 for a total_time of 0 and else
\* count / (total_time / 60)
PerMinute(count, total_time) ==
    IF total_time = 0 THEN Frac(0, 1) ELSE Frac(count * 60, total_time)

\* calc_player_stats: tot_kills / tot_deaths if tot_deaths != 0 else tot_kills
Ratio(tot_kills, tot_deaths) ==
    IF tot_deaths # 0 THEN Frac(tot_kills, tot_deaths) ELSE Frac(tot_kills, 1)

\* calc_player_stats, the record it returns
PlayerStats(player_id, total_time, d) ==
    Some([player_id |-> player_id,
          time_played_seconds |-> total_time,
          kpm |-> PerMinute(d.tot_kills, total_time),
          dpm |-> PerMinute(d.tot_deaths, total_time),
          tot_kills |-> d.tot_kills,
          tot_deaths |-> d.tot_deaths,
          ratio |-> Ratio(d.tot_kills, d.tot_deaths),
          tot_team_kills |-> d.tot_team_kills,
          tot_team_deaths |-> d.tot_team_deaths])

\* calc_player_stats that sums whatever number of transitions it has
TimedStatsAnyParity(player_id, times, d) ==
    PlayerStats(player_id, PairwiseSeconds(times), d)

\* calc_player_stats with transitions: None for an odd number of them
TimedStats(player_id, times, d) ==
    IF Len(times) % 2 # 0 THEN None
    ELSE PlayerStats(player_id, PairwiseSeconds(times), d)

\* calc_player_stats
CalcPlayerStats(game, evs, player_id) ==
    IF ~HasTransitions(evs, player_id)
    THEN PlayerStats(player_id, game.duration[1] - WarmupSeconds,
                     Distributions(evs, player_id))
    ELSE TimedStats(player_id, CorrectedTimes(game, evs, player_id),
                    Distributions(evs, player_id))

\* calc_player_stats: the maps and the histograms of the record it returns,
\* from what the two loops of distributions have filled, with its totals
MapsOf(kills, team_kills, d) ==
    [kill_distribution |-> kills.dealt,
     death_distribution |-> kills.received,
     team_kill_distribution |-> team_kills.dealt,
     team_death_distribution |-> team_kills.received,
     nemesis |-> CounterOf(kills.received),
     victims |-> CounterOf(kills.dealt),
     weapons_kills |-> CounterOf(kills.weapons_dealt),
     weapons_deaths |-> CounterOf(kills.weapons_received),
     tot_kills |-> d.tot_kills,
     tot_deaths |-> d.tot_deaths,
     tot_team_kills |-> d.tot_team_kills,
     tot_team_deaths |-> d.tot_team_deaths]

PlayerMaps(game, evs, player_id) ==
    MapsOf(FillMaps(NoMaps, evs, game.start_time, "KILL", player_id),
           FillMaps(NoMaps, evs, game.start_time, "TEAM KILL", player_id),
           Distributions(evs, player_id))

----------------------------------------------------------------------------
\* ingest_events.py: what one event does to the session.  The session `st`
\* holds the tables of the open transaction (games, players, game_players,
\* analyses), the two tables of the run (last_nums, active_games), the event
\* mappings of the batch (records), game.players as loaded in this
\* transaction (loaded), and `trace`, which notes for every processed event
\* the entry of active_games at the moment its record was built and whether
\* the event changed a row of the games table.

Digits == <<"0", "1", "2", "3", "4", "5", "6", "7", "8", "9">>

IsDigit(tok) == \E i \in 1..Len(Digits) : Digits[i] = tok

IntOf(tok) == (CHOOSE i \in 1..Len(Digits) : Digits[i] = tok) - 1

HasSeedingPhrase(content) == \E i \in 1..Len(content) : content[i] = SeedingPhrase

\* parse_match_start, the content part: "MATCH START <MAP> <MODE>"
ParseMapMode(content) ==
    IF Len(content) >= 2 /\ content[1] = "MATCH START"
    THEN IF Len(content) >= 3
         THEN [map |-> Some(SubSeq(content, 2, Len(content) - 1)),
               mode |-> Some(content[Len(content)])]
         ELSE [map |-> Some(Tail(content)), mode |-> None]
    ELSE [map |-> None, mode |-> None]

\* parse_match_start: the next number of the server and the new Game
ParseMatchStart(ev, srv, nums) ==
    LET n == nums[srv] + 1
        mm == ParseMapMode(ev.content)
    IN  [game_key |-> <<srv, n>>, server |-> srv, game_number |-> n,
         start_time |-> ev.time, end_time |-> None, ended |-> FALSE,
         seeding |-> FALSE, map |-> mm.map, mode |-> mm.mode, duration |-> None,
         allied_score |-> None, axis_score |-> None, winner |-> None]

\* close_match: content.split("(")[1][:5].split(" - "), None when it raises
ParseScore(content) ==
    IF \E i \in 1..Len(content) : content[i] = "("
    THEN LET i == CHOOSE j \in 1..Len(content) :
                      /\ content[j] = "("
                      /\ \A k \in 1..(j - 1) : content[k] # "("
         IN  IF /\ i + 3 <= Len(content)
                /\ IsDigit(content[i + 1])
                /\ content[i + 2] = " - "
                /\ IsDigit(content[i + 3])
             THEN Some(<<IntOf(content[i + 1]), IntOf(content[i + 3])>>)
             ELSE None
    ELSE None

\* close_match, with the score it has read
CloseWith(ev, game, score) ==
    [game EXCEPT !.end_time = Some(ev.time),
                 !.ended = TRUE,
                 !.duration = Some(ev.time - game.start_time),
                 !.allied_score = Some(score[1]),
                 !.axis_score = Some(score[2]),
                 !.winner = IF score[1] > score[2]
                            THEN Some("allies") ELSE Some("axis")]

\* close_match
CloseMatch(ev, game) == CloseWith(ev, game, ParseScore(ev.content)[1])

\* close_match called on a Game object: the object as the call leaves it, and
\* whether the call raised (lines 218-220 have run before line 221 can raise)
CloseMatchCall(ev, game) ==
    IF ParseScore(ev.content) = None
    THEN [raised |-> TRUE,
          game |-> [game EXCEPT !.end_time = Some(ev.time),
                                !.ended = TRUE,
                                !.duration = Some(ev.time - game.start_time)]]
    ELSE [raised |-> FALSE, game |-> CloseMatch(ev, game)]

\* build_event_record
BuildEventRecord(ev, active) ==
    [ev |-> ev, game_key |-> IF active[ev.server] # None
                             THEN Some(active[ev.server]) ELSE None]

\* update_player, for both actors: the ids the players table holds
UpdatePlayers(players, ev) ==
    players \cup ({ev.player1_id, ev.player2_id} \ {NoPlayer})

\* game.players: loaded from game_players at its first use in a transaction
GamePlayers(st, key) ==
    IF \E c \in st.loaded : c[1] = key
    THEN (CHOOSE c \in st.loaded : c[1] = key)[2]
    ELSE {p \in Players : <<key, p>> \in st.game_players}

\* the events of stored rows
EventsOf(rows) == [i \in 1..Len(rows) |-> rows[i].ev]

\* create_analysis (skip_seeding = True), with what it has loaded
AnalysisOf(st, key, game, evs, players) ==
    IF game.seeding \/ ~game.ended THEN st
    ELSE [st EXCEPT
            !.loaded = @ \cup {<<key, players>>},
            !.analyses = Append(@,
                [game_key |-> key,
                 player_stats |->
                    {CalcPlayerStats(game, evs, p)[1] :
                        p \in {q \in players : CalcPlayerStats(game, evs, q) # None}}])]

\* create_analysis: game.events are the rows the store holds
CreateAnalysis(st, key, dbEvents) ==
    AnalysisOf(st, key, GameOf(st.games, key), EventsOf(GameEvents(dbEvents, key)),
               GamePlayers(st, key))

\* process_event_file: the seeding phrase marks the Game of the server's entry
MarkSeeding(st, ev) ==
    IF st.active_games[ev.server] # None /\ HasSeedingPhrase(ev.content)
    THEN [st EXCEPT !.games =
            SetGame(@, st.active_games[ev.server],
                    [GameOf(@, st.active_games[ev.server]) EXCEPT !.seeding = TRUE])]
    ELSE st

\* process_event_file, the MATCH START branch
OpenMatch(st, ev, game) ==
    [st EXCEPT !.last_nums[ev.server] = game.game_number,
               !.games = Append(@, game),
               !.active_games[ev.server] = game.game_key]

\* process_event_file, the MATCH ENDED branch; close_match raises on a
\* score it cannot read
EndMatch(st, ev, dbEvents) ==
    IF ParseScore(ev.content) = None
    THEN [st EXCEPT !.raised = TRUE]
    ELSE CreateAnalysis(
            [st EXCEPT !.games =
                SetGame(@, st.active_games[ev.server],
                        CloseMatch(ev, GameOf(@, st.active_games[ev.server])))],
            st.active_games[ev.server], dbEvents)

\* process_event_file, the dispatch on the event type
MatchEvent(st, ev, dbEvents) ==
    IF ev.type = "MATCH START"
    THEN OpenMatch(st, ev, ParseMatchStart(ev, ev.server, st.last_nums))
    ELSE IF ev.type = "MATCH ENDED" /\ st.active_games[ev.server] # None
    THEN EndMatch(st, ev, dbEvents)
    ELSE st

\* process_event_file: the record of the event and the game_players rows of
\* its actors; `before` is the session as the event found it
AppendRecord(before, st, ev) ==
    IF st.raised THEN st
    ELSE [st EXCEPT
            !.records = Append(@, BuildEventRecord(ev, st.active_games)),
            !.trace = Append(@, [ev |-> ev,
                                 open |-> st.active_games[ev.server],
                                 changed |-> st.games # before.games]),
            !.game_players =
                IF st.active_games[ev.server] # None
                THEN @ \cup {<<st.active_games[ev.server], p>> :
                                p \in {ev.player1_id, ev.player2_id} \ {NoPlayer}}
                ELSE @]

\* process_event_file, the body of its loop
ProcessEvent(st, ev, dbEvents) ==
    AppendRecord(st,
        MatchEvent(MarkSeeding([st EXCEPT !.players = UpdatePlayers(@, ev)], ev),
                   ev, dbEvents),
        ev)

\* process_event_file: the events of one file, in the order of their times
RECURSIVE ProcessEvents(_, _, _)
ProcessEvents(st, evs, dbEvents) ==
    IF evs = <<>> \/ st.raised THEN st
    ELSE ProcessEvents(ProcessEvent(st, Head(evs), dbEvents), Tail(evs), dbEvents)

ProcessEventFile(st, data, dbEvents) ==
    ProcessEvents(st, SortedByTime(data), dbEvents)

\* is_processed that finds no marker
IsProcessedNever(fname, files) == FALSE

\* is_processed
IsProcessed(fname, files) == fname \in files

\* ingest_batch, its loop over the files of the batch (paths: file numbers);
\* json.load raises on a file it cannot decode, and nothing catches it
RECURSIVE IngestFiles(_, _, _, _)
IngestFiles(st, paths, allFiles, store) ==
    IF paths = <<>> \/ st.raised THEN st
    ELSE IF IsProcessed(Head(paths), store.files)
    THEN IngestFiles([st EXCEPT !.skipped = @ + 1], Tail(paths), allFiles, store)
    ELSE IF ~IsDecodable(allFiles[Head(paths)])
    THEN [st EXCEPT !.raised = TRUE]
    ELSE IngestFiles(
            [ProcessEventFile(st, allFiles[Head(paths)], store.events)
                EXCEPT !.to_mark = @ \cup {Head(paths)}],
            Tail(paths), allFiles, store)

\* INSERT ... ON CONFLICT (event_id) DO NOTHING
RECURSIVE InsertOrIgnore(_, _)
InsertOrIgnore(events, mappings) ==
    IF mappings = <<>> THEN events
    ELSE InsertOrIgnore(
            IF \E i \in 1..Len(events) : events[i].ev = Head(mappings).ev
            THEN events ELSE Append(events, Head(mappings)),
            Tail(mappings))

\* the session at the start of a batch
NewSession(store, nums, active) ==
    [games |-> store.games, players |-> store.players,
     game_players |-> store.game_players, analyses |-> store.analyses,
     last_nums |-> nums, active_games |-> active,
     records |-> <<>>, to_mark |-> {}, loaded |-> {},
     trace |-> <<>>, skipped |-> 0, raised |-> FALSE]

\* the end of ingest_batch and session.commit(): without mappings the
\* function returns before it marks the files
Committed(st, store) ==
    [session |-> st,
     db |-> [games |-> st.games, players |-> st.players,
             game_players |-> st.game_players, analyses |-> st.analyses,
             events |-> InsertOrIgnore(store.events, st.records),
             files |-> IF st.records = <<>> THEN store.files
                       ELSE store.files \cup st.to_mark]]

\* ingest_batch followed by session.commit(): the session after the batch and
\* the store it commits
IngestBatchResult(paths, allFiles, store, nums, active) ==
    Committed(IngestFiles(NewSession(store, nums, active), paths, allFiles, store),
              store)

----------------------------------------------------------------------------
\* sql_utils.py: the per-game series of one player.

\* fetch_player_metrics_by_game: PlayerAnalysis JOIN GameAnalysis JOIN Game,
\* filtered by the player and, with exclude_seeding, by Game.seeding IS FALSE;
\* one row per analysed game, with the metric columns of the player
FetchPlayerMetricsByGame(store, player_id, exclude_seeding) ==
    {r \in UNION {{[game_key |-> store.analyses[i].game_key, metrics |-> ps] :
                     ps \in {q \in store.analyses[i].player_stats :
                                q.player_id = player_id}} :
                  i \in 1..Len(store.analyses)} :
        exclude_seeding => ~GameOf(store.games, r.game_key).seeding}

----------------------------------------------------------------------------
\* run_sql_pipeline.

Max(S) == CHOOSE x \in S : \A y \in S : y <= x

Min2(a, b) == IF a <= b THEN a ELSE b

\* counters that are not read back from the store
LoadLastNumsFresh(store) == [s \in Servers |-> 0]

\* last_nums: SELECT server, max(game_number) ... GROUP BY server; a server
\* without games reads as 0 (last_nums.get(srv, 0))
LoadLastNums(store) ==
    [s \in Servers |->
        Max({0} \cup {store.games[i].game_number :
                        i \in {j \in 1..Len(store.games) : store.games[j].server = s}})]

\* active_games: {g.server: g for g in games where ended = false}; the rows
\* come in the order of their insertion, so a server's last such game stays
LoadActiveGames(store) ==
    [s \in Servers |->
        LET open == {i \in 1..Len(store.games) :
                        store.games[i].server = s /\ ~store.games[i].ended}
        IN  IF open = {} THEN None ELSE store.games[Max(open)].game_key]

NoNums == [s \in Servers |-> 0]

NoGames == [s \in Servers |-> None]

\* the files of batch number idx: all_files[idx : idx + BATCH_SIZE]
BatchPaths(first, allFiles) ==
    [i \in 1..(Min2(first + BATCH_SIZE - 1, Len(allFiles)) - first + 1) |-> first + i - 1]

\* the loop of run_sql_pipeline from file number `first` on, when nothing
\* stops it: the store it leaves
RECURSIVE RunBatches(_, _, _, _, _)
AfterBatch(first, allFiles, res) ==
    RunBatches(first + BATCH_SIZE, allFiles, res.db,
               res.session.last_nums, res.session.active_games)

RunBatches(first, allFiles, store, nums, active) ==
    IF first > Len(allFiles) THEN store
    ELSE AfterBatch(first, allFiles,
            IngestBatchResult(BatchPaths(first, allFiles), allFiles, store,
                              nums, active))

\* one whole run of run_sql_pipeline on a store
CompleteRun(allFiles, store) ==
    RunBatches(1, allFiles, store, LoadLastNums(store), LoadActiveGames(store))

\* The folder of log files, as download_sequential_logs leaves it: every file
\* holds the records of one answer of the remote log, each once, sorted by
\* event time.  The same record may be in several files.
LogFiles(n) ==
    {f \in [1..n -> Events] :
        /\ IsSortedByTime(f)
        /\ \A i, j \in 1..n : i # j => f[i] # f[j]}

FolderSize(files) == SeqSum([i \in 1..Len(files) |-> Len(files[i])])

Init ==
    /\ folder = <<>>
    /\ db = EmptyDb
    /\ last_nums = NoNums
    /\ active_games = NoGames
    /\ pc = "stopped"
    /\ idx = 1
    /\ nskipped = 0
    /\ run_db0 = EmptyDb
    /\ torn = FALSE
    /\ args = None
    /\ result = None
    /\ loop = None

\* download_sequential_logs, one turn of its loop: a new file, the last of
\* the folder by its name
Download ==
    /\ pc # "running"
    /\ \E n \in 1..(MaxEvents - FolderSize(folder)) :
          \E f \in LogFiles(n) : folder' = Append(folder, f)
    /\ UNCHANGED <<db, last_nums, active_games, pc, idx, nskipped, run_db0, torn,
                   args, result, loop>>

\* run_sql_pipeline up to its loop: the tables of the run are read from the store
StartRun ==
    /\ pc # "running"
    /\ pc' = "running"
    /\ last_nums' = LoadLastNums(db)
    /\ active_games' = LoadActiveGames(db)
    /\ idx' = 1
    /\ nskipped' = 0
    /\ run_db0' = IF pc = "crashed" THEN run_db0 ELSE db
    /\ UNCHANGED <<folder, db, torn, args, result, loop>>

\* PRAGMA journal_mode = OFF: SQLite keeps no rollback journal, so what a
\* transaction has written before it stops is undone or stays.  The rows that
\* session.flush() writes (games, players, links, analyses) come before the
\* event rows and the file markers, which ingest_batch writes last.
Unfinished(store, res) ==
    {store, [res.db EXCEPT !.events = store.events, !.files = store.files]}

\* a behaviour has at most one transaction that leaves rows behind
Stopped(store, res) == IF torn THEN {store} ELSE Unfinished(store, res)

\* what ingest_batch makes of the next batch of the run
StepResult ==
    IngestBatchResult(BatchPaths(idx, folder), folder, db, last_nums, active_games)

\* ingest_batch has returned and session.commit() follows, or an exception
\* ends the run with the transaction open
EndBatch(res) ==
    IF res.session.raised
    THEN /\ pc' = "crashed"
         /\ last_nums' = NoNums
         /\ active_games' = NoGames
         /\ idx' = 1
         /\ nskipped' = 0
         /\ db' \in Stopped(db, res)
         /\ torn' = (torn \/ db' # db)
    ELSE /\ db' = res.db
         /\ last_nums' = res.session.last_nums
         /\ active_games' = res.session.active_games
         /\ idx' = idx + BATCH_SIZE
         /\ nskipped' = nskipped + res.session.skipped
         /\ pc' = pc
         /\ torn' = torn

\* one turn of the loop of run_sql_pipeline
IngestBatch ==
    /\ pc = "running"
    /\ idx <= Len(folder)
    /\ EndBatch(StepResult)
    /\ UNCHANGED <<folder, run_db0, args, result, loop>>

\* the end of the loop: session.close()
Finish ==
    /\ pc = "running"
    /\ idx > Len(folder)
    /\ pc' = "done"
    /\ last_nums' = NoNums
    /\ active_games' = NoGames
    /\ idx' = 1
    /\ nskipped' = 0
    /\ run_db0' = EmptyDb
    /\ UNCHANGED <<folder, db, torn, args, result, loop>>

\* the process is stopped while it ingests a batch, before the commit
Crash ==
    /\ pc = "running"
    /\ idx <= Len(folder)
    /\ pc' = "crashed"
    /\ last_nums' = NoNums
    /\ active_games' = NoGames
    /\ idx' = 1
    /\ nskipped' = 0
    /\ db' \in Stopped(db, StepResult)
    /\ torn' = (torn \/ db' # db)
    /\ UNCHANGED <<folder, run_db0, args, result, loop>>

Next == Download \/ StartRun \/ IngestBatch \/ Finish \/ Crash

Spec == Init /\ [][Next]_vars

----------------------------------------------------------------------------
\* legacy_json/analysis_utils.py: the statistics of the JSON pipeline.  `logs`
\* is game["logs"], the events of one match from its MATCH START to its
\* MATCH ENDED, in the order of the log.

\* start_end_isostring: the sorted times of MATCH START and MATCH ENDED
StartEnd(logs) ==
    SortedByTime(SelectSeq(logs, LAMBDA e : e.type \in {"MATCH START", "MATCH ENDED"}))

\* player_total_seconds: player_connections without any event of the player
FullPresence(start, end) ==
    <<[time |-> start, type |-> "CONNECTED"], [time |-> end, type |-> "DISCONNECTED"]>>

\* player_total_seconds: player_connections in the order of the log, with a
\* CONNECTED at start before a first DISCONNECTED and a DISCONNECTED at end
\* after a last CONNECTED
CorrectedConnections(conns, start, end) ==
    IF conns = <<>> THEN FullPresence(start, end)
    ELSE WithEnd(WithStart(conns, start), end)

\* (x["type"], x["event_time"]) for the events of the list, in their order
TypeAndTime(evs) ==
    [i \in 1..Len(evs) |-> [time |-> evs[i].time, type |-> evs[i].type]]

LegacyConnections(logs, player_id) ==
    CorrectedConnections(TypeAndTime(TransitionsOf(logs, player_id)),
                         StartEnd(logs)[1].time, StartEnd(logs)[2].time)

\* zip(timed_tuples[::2], timed_tuples[1::2]): the pairs (1st, 2nd),
\* (3rd, 4th), ...; an entry left over at the end is dropped
PairedSeconds(times) ==
    SeqSum([i \in 1..(Len(times) \div 2) |-> times[2 * i].time - times[2 * i - 1].time])

\* player_total_seconds
PlayerTotalSeconds(logs, player_id) == PairedSeconds(LegacyConnections(logs, player_id))

\* round(q, ndigits) with scale = 10 ^ ndigits: the nearest multiple of
\* 1 / scale, the even one of two that are equally near (no quotient of the
\* model that lies half-way is inexact in binary)
RoundHalfEven(x, d) ==
    IF 2 * (x % d) < d THEN x \div d
    ELSE IF 2 * (x % d) > d THEN (x \div d) + 1
    ELSE IF (x \div d) % 2 = 0 THEN x \div d ELSE (x \div d) + 1

RoundTo(q, scale) == Frac(RoundHalfEven(q[1] * scale, q[2]), scale)

\* get_event_per_minute: round(all_events / (time_played / 60), 2), 0 without minutes
GetEventPerMinute(all_events, time_played) ==
    IF time_played = 0 THEN Frac(0, 1)
    ELSE RoundTo(Frac(all_events * 60, time_played), 100)

\* game_analysis, tot_ratios: round(kills / deaths, 1) if deaths > 0 else 0
LegacyRatio(tot_kills, tot_deaths) ==
    IF tot_deaths > 0 THEN RoundTo(Frac(tot_kills, tot_deaths), 10) ELSE Frac(0, 1)

\* game_analysis, the entries of one player, from the totals
LegacyStats(player_id, time_played, tot_kills, tot_deaths) ==
    [player_id |-> player_id,
     time_played |-> time_played,
     kpm |-> GetEventPerMinute(tot_kills, time_played),
     dpm |-> GetEventPerMinute(tot_deaths, time_played),
     tot_kills |-> tot_kills,
     tot_deaths |-> tot_deaths,
     ratio |-> LegacyRatio(tot_kills, tot_deaths)]

\* game_analysis, the entries of one player
GameAnalysis(logs, player_id) ==
    LegacyStats(player_id, PlayerTotalSeconds(logs, player_id),
        Cardinality({i \in 1..Len(logs) :
            logs[i].type = "KILL" /\ logs[i].player1_id = player_id}),
        Cardinality({i \in 1..Len(logs) :
            logs[i].type = "KILL" /\ logs[i].player2_id = player_id}))

\* d.get(key, {}) on a dict of maps
Get(d, key) == IF key \in DOMAIN d THEN d[key] ELSE <<>>

\* all_pl_kill_distribution, check_situation: dict[actor][seconds] gets
\* (actor1, weapon) appended, the keys made as needed
CheckSituation(d, seconds, actor, actor1, weapon) ==
    [a \in DOMAIN d \cup {actor} |->
        IF a = actor THEN AppendAt(Get(d, a), seconds, <<actor1, weapon>>)
        ELSE d[a]]

\* all_pl_kill_distribution, its loop over the logs of `type`: every event
\* goes to the map of its killer and to the map of its victim; the key is
\* seconds_from_start(game["date"], log["event_time"])
RECURSIVE KillDistr(_, _, _, _)
KillDistr(maps, logs, date, type) ==
    IF logs = <<>> THEN maps
    ELSE KillDistr(
            IF Head(logs).type = type
            THEN [kill_distr |->
                     CheckSituation(maps.kill_distr, Head(logs).time - date,
                                    Head(logs).player1_id, Head(logs).player2_id,
                                    Weapon(Head(logs))),
                  death_distr |->
                     CheckSituation(maps.death_distr, Head(logs).time - date,
                                    Head(logs).player2_id, Head(logs).player1_id,
                                    Weapon(Head(logs)))]
            ELSE maps,
            Tail(logs), date, type)

NoDistr == [kill_distr |-> <<>>, death_distr |-> <<>>]

\* all_pl_kill_distribution: kill_distr, death_distr and team_kills (the
\* loop over TEAM KILL fills no map of the victims)
AllPlKillDistribution(game) ==
    [kills |-> KillDistr(NoDistr, game.logs, game.date, "KILL").kill_distr,
     deaths |-> KillDistr(NoDistr, game.logs, game.date, "KILL").death_distr,
     teamkills |-> KillDistr(NoDistr, game.logs, game.date, "TEAM KILL").kill_distr]

\* the first or the second members of the pairs of a map
Component(d, index) == [k \in DOMAIN d |-> [i \in 1..Len(d[k]) |-> d[k][i][index]]]

\* game_analysis: the maps, the totals and the weapon histograms of one
\* player; count_actor counts the members of the pairs, sum_values adds the
\* counts up, count_events adds the lengths of the lists up
LegacyMapsOf(distr, player_id) ==
    [kills_distribution |-> Get(distr.kills, player_id),
     deaths_distribution |-> Get(distr.deaths, player_id),
     team_kills_distribution |-> Get(distr.teamkills, player_id),
     total_kills |-> Total(CounterOf(Component(Get(distr.kills, player_id), 1))),
     total_deaths |-> Total(CounterOf(Component(Get(distr.deaths, player_id), 1))),
     total_team_kills |-> Entries(Get(distr.teamkills, player_id)),
     weapon_kills |-> CounterOf(Component(Get(distr.kills, player_id), 2)),
     weapon_deaths |-> CounterOf(Component(Get(distr.deaths, player_id), 2))]

LegacyMaps(game, player_id) == LegacyMapsOf(AllPlKillDistribution(game), player_id)

\* list_players: the ids that the logs name as first or second actor
ListPlayers(logs) ==
    ({logs[i].player1_id : i \in 1..Len(logs)}
        \cup {logs[i].player2_id : i \in 1..Len(logs)}) \ {NoPlayer}

\* gametime_and_result: the seconds from the last MATCH START of the logs to
\* their last MATCH ENDED
LastTimeOf(logs, type) ==
    logs[Max({i \in 1..Len(logs) : logs[i].type = type})].time

GameTime(logs) == LastTimeOf(logs, "MATCH ENDED") - LastTimeOf(logs, "MATCH START")

\* kill_avg: statistics.mean(tot_kills.values()), 0.0 without players
KillAvg(tot_kills) ==
    IF DOMAIN tot_kills = {} THEN Frac(0, 1)
    ELSE Frac(Total(tot_kills), Cardinality(DOMAIN tot_kills))

\* rank_percentile: sum(1 for v in all_kpm.values() if v < score) / len(all_kpm)
RankPercentile(all_kpm, player) ==
    Frac(Cardinality({x \in DOMAIN all_kpm : FracLess(all_kpm[x], all_kpm[player])}),
         Cardinality(DOMAIN all_kpm))

\* weighted_kpm
WeightedKpm(rank_percentile, player_kills, kill_avg, kpm) ==
    IF FracLess(Frac(0, 1), kill_avg)
    THEN FracMul(
            FracMul(FracSub(Frac(1, 1),
                            FracDiv(FracSub(rank_percentile, Frac(1, 1)), Frac(100, 1))),
                    FracDiv(Frac(player_kills, 1), kill_avg)),
            kpm)
    ELSE Frac(0, 1)

\* Apolo_gf, A: float = 0.45, and Apolo_GF, B: float = 0.65
ExponentA == Frac(45, 100)

ExponentB == Frac(65, 100)

\* A power with a fractional exponent is kept as a term.  Apolo_gf:
\* (total_seconds / time_game) ** A * kpm is the term of its base, its
\* exponent and its factor; it raises ZeroDivisionError for a time_game of 0
ApoloGf(total_kpm, total_seconds, time_game, player_id) ==
    IF time_game = 0 THEN [raised |-> "ZeroDivisionError"]
    ELSE [base |-> Frac(total_seconds, time_game), exp |-> ExponentA,
          factor |-> total_kpm[player_id]]

\* the score 0
ZeroScore == [value |-> 0]

\* Apolo_GF: (sum_gf / kills) ** B * gfs[player_id], sum_gf the sum of
\* get_gfs(gfs, victim) * count over the victims of the player; 0 without kills
ApoloGF(all_victims, total_kills, player_id, gfs) ==
    IF total_kills[player_id] > 0
    THEN [sum |-> [v \in DOMAIN all_victims[player_id] |->
                     [gf |-> IF v \in DOMAIN gfs THEN gfs[v] ELSE ZeroScore,
                      times |-> all_victims[player_id][v]]],
          over |-> total_kills[player_id],
          exp |-> ExponentB,
          factor |-> gfs[player_id]]
    ELSE ZeroScore

\* game_analysis, the scores of the match from the entries of its players
ScoresOf(all_players, times_played, all_kpm, all_victims, tot_kills, game_time) ==
    [players |-> all_players,
     players_game_time |-> times_played,
     game_time |-> game_time,
     list_kpm |-> all_kpm,
     total_kills |-> tot_kills,
     list_victims |-> all_victims,
     percentile |-> [x \in all_players |-> RankPercentile(all_kpm, x)],
     list_weighted_kpm |->
        [x \in all_players |->
            WeightedKpm(RankPercentile(all_kpm, x), tot_kills[x],
                        KillAvg(tot_kills), all_kpm[x])],
     gfs |-> [x \in all_players |->
                ApoloGf(all_kpm, times_played[x], game_time, x)],
     list_Apolo_kpm |->
        [x \in all_players |->
            ApoloGF(all_victims, tot_kills, x,
                    [y \in all_players |->
                        ApoloGf(all_kpm, times_played[y], game_time, y)])]]

\* game_analysis, read for the scores of its players
GameScores(game) ==
    ScoresOf(ListPlayers(game.logs),
             [x \in ListPlayers(game.logs) |-> PlayerTotalSeconds(game.logs, x)],
             [x \in ListPlayers(game.logs) |-> GameAnalysis(game.logs, x).kpm],
             [x \in ListPlayers(game.logs) |->
                CounterOf(Component(Get(AllPlKillDistribution(game).kills, x), 1))],
             [x \in ListPlayers(game.logs) |-> GameAnalysis(game.logs, x).tot_kills],
             GameTime(game.logs))

----------------------------------------------------------------------------
\* legacy_json/statistics.py: the plots of the JSON pipeline.  A game analysis
\* is the dictionary that game_analysis returns, with "start date", "seeding
\* match", "incomplete game", "players" (the keys of that dictionary) and,
\* under `metrics`, its other entries that are not in the list of excluded
\* names, each a dictionary from player to value.  The nested dictionary
\* result[player][grab][start date] is a function on the triples that have a
\* value: setdefault makes an inner dictionary only to store a value in it.

Grabs == {"list kpm", "total kills"}

NoPlot == [k \in {} |-> 0]

\* the test of an analysis in the loop of get_plot_from_analysis_list
Accepted(analysis, accept_seeding, accept_incomplete) ==
    /\ accept_seeding \/ ~analysis.seeding
    /\ accept_incomplete \/ ~analysis.incomplete

\* the two loops over grabs and players of one accepted analysis
GrabbedKeys(analysis, filters_dict) ==
    {<<player, grab, analysis.start_date>> :
        player \in analysis.players \cap filters_dict, grab \in Grabs}

PlotWith(plot, analysis, filters_dict) ==
    [k \in DOMAIN plot \cup GrabbedKeys(analysis, filters_dict) |->
        IF k \in GrabbedKeys(analysis, filters_dict)
        THEN analysis.metrics[k[2]][k[1]]
        ELSE plot[k]]

\* `if filters_dict is None: filters_dict = analysis["players"]`: the name
\* is bound once and stays bound for the rest of the list
FiltersAt(analysis, filters_dict) ==
    IF filters_dict = None THEN Some(analysis.players) ELSE filters_dict

RECURSIVE PlotFrom(_, _, _, _, _, _)
PlotFrom(list, i, plot, filters_dict, accept_seeding, accept_incomplete) ==
    IF i > Len(list) THEN plot
    ELSE IF Accepted(list[i], accept_seeding, accept_incomplete)
    THEN PlotFrom(list, i + 1,
                  PlotWith(plot, list[i], FiltersAt(list[i], filters_dict)[1]),
                  FiltersAt(list[i], filters_dict),
                  accept_seeding, accept_incomplete)
    ELSE PlotFrom(list, i + 1, plot, filters_dict, accept_seeding, accept_incomplete)

GetPlotFromAnalysisList(list, out_dict, filters_dict, accept_seeding, accept_incomplete) ==
    PlotFrom(list, 1, out_dict, filters_dict, accept_seeding, accept_incomplete)

\* _generate_monthly_plots for one month: each file holds one analysis, and
\* the function is called once per file with the filter it was given
RECURSIVE MonthlyPlots(_, _, _, _)
MonthlyPlots(files, i, analysis_grouped_by_month, filter) ==
    IF i > Len(files) THEN analysis_grouped_by_month
    ELSE MonthlyPlots(files, i + 1,
                      GetPlotFromAnalysisList(<<files[i]>>, analysis_grouped_by_month,
                                              filter, FALSE, FALSE),
                      filter)

GenerateMonthlyPlots(files, filter) == MonthlyPlots(files, 1, NoPlot, filter)

----------------------------------------------------------------------------
\* The functions of the pipeline, each called on its own on arguments drawn
\* from bounded sets.  `args` holds the name of the function and its
\* arguments, `result` what the call returned; the pipeline itself stays
\* as it is before its first run.

pipeline == <<folder, db, last_nums, active_games, pc, idx, nskipped, run_db0, torn>>

\* the score tokens of a MATCH ENDED: one digit each, or no number at all
ScoreTokens == {Digits[i] : i \in 1..(MaxScore + 1)} \cup {"?"}

\* a Game that MATCH START has opened at time 0
OpenGame(s) == ParseMatchStart(MatchStart(s, 0), s, NoNums)

\* close_match(ev, game, ev_time) on an open Game
CloseMatchArgs ==
    {[fn |-> "close_match", ev |-> ev, game |-> OpenGame("s1")] :
        ev \in {MatchEndedWith("s1", t, a, b) :
                    t \in {1, 2}, a \in ScoreTokens, b \in ScoreTokens}
               \cup {MatchEndedNoScore("s1", 1)}}

\* the digits a side's score is written with
ScoreDigits == {Digits[i] : i \in 1..(MaxScore + 1)}

\* log files of one match of server s1: its MATCH START, then a seeding
\* message, a kill, both or neither, then its MATCH ENDED with some score,
\* or no MATCH ENDED
MatchFiles ==
    {<<MatchStart("s1", 0)>> \o mid \o end :
        mid \in {<<>>, <<SeedingMessage("s1", 0)>>, <<Kill("s1", 1)>>,
                 <<SeedingMessage("s1", 0), Kill("s1", 1)>>},
        end \in {<<>>} \cup {<<MatchEndedWith("s1", 2, a, b)>> :
                                a \in ScoreDigits, b \in ScoreDigits}}

\* fetch_player_metrics_by_game(session, player_id, metric_columns,
\* exclude_seeding=...) on the store that a run over one log file has left
FetchArgs ==
    {[fn |-> "fetch_player_metrics_by_game",
      store |-> CompleteRun(<<f>>, EmptyDb),
      player_id |-> p, exclude_seeding |-> x] :
        f \in MatchFiles, p \in Players, x \in BOOLEAN}

\* log files for a batch: a match of server s1 with a kill before and a kill
\* after its MATCH ENDED, whose content may hold no score that can be read;
\* a file of server s2; a file that cannot be decoded; a file whose records
\* are not in the order of their times
BatchFiles ==
    {<<MatchStart("s1", 0), Kill("s1", 1), e, Kill("s1", 3)>> :
        e \in {MatchEndedWith("s1", 2, a, b) :
                    a \in {"3", "2", "?"}, b \in {"3", "2", "?"}}
               \cup {MatchEndedNoScore("s1", 2)}}
    \cup {<<Kill("s2", 1)>>, Undecodable, <<Kill("s1", 3), MatchStart("s1", 0)>>}

\* ingest_batch(file_paths, session, last_nums, active_games) on an empty store
IngestArgs ==
    {[fn |-> "ingest_batch", files |-> fs] :
        fs \in UNION {[1..n -> BatchFiles] : n \in 1..MaxBatchFiles}}

\* the moments of a match of 1800 seconds at which a player connects or
\* disconnects
TransitionTimes == {0, 10, 400, 1800}

\* the CONNECTED/DISCONNECTED events of player p in one Game, in the order
\* of their times
TransitionLists(p) ==
    {f \in UNION {[1..n -> {Transition("s1", t, ty, p) :
                                t \in TransitionTimes,
                                ty \in {"CONNECTED", "DISCONNECTED"}}] :
                    n \in 0..MaxTransitions} :
        \A i \in 1..(Len(f) - 1) : f[i].time < f[i + 1].time}

\* the events of a match between its start and its end: the transitions of
\* p1, k kills of p2 by p1 and d kills of p1 by p2
StatsEvents(tr, k, d) ==
    tr \o [i \in 1..k |-> KillBy("s1", 300 + i, "p1", "p2")]
       \o [i \in 1..d |-> KillBy("s1", 600 + i, "p2", "p1")]

\* the match: opened at 0, closed at 1800
FullMatchEnd == MatchEndedWith("s1", 1800, "3", "2")

FullMatch == CloseMatch(FullMatchEnd, OpenGame("s1"))

\* calc_player_stats(game, player_id), game.events being `evs`
CalcArgs ==
    {[fn |-> "calc_player_stats", game |-> FullMatch,
      evs |-> StatsEvents(tr, k, d), player_id |-> "p1"] :
        tr \in TransitionLists("p1"), k \in 0..MaxKills, d \in 0..MaxDeaths}

\* a match shorter than the warm-up: opened at 0, closed at 200
ShortMatch == CloseMatch(MatchEndedWith("s1", 200, "3", "2"), OpenGame("s1"))

\* calc_player_stats(game, player_id) on the short match, game.events being
\* kills of p1 on p2
ShortCalcArgs ==
    {[fn |-> "calc_player_stats", game |-> ShortMatch,
      evs |-> [i \in 1..k |-> KillBy("s1", 100 + i, "p1", "p2")],
      player_id |-> "p1"] :
        k \in 0..MaxPairKills}

\* game_analysis(game, file_stem) of the JSON pipeline, read for one player
GameAnalysisArgs ==
    {[fn |-> "game_analysis",
      logs |-> <<MatchStart("s1", 0)>> \o StatsEvents(tr, k, d) \o <<FullMatchEnd>>,
      player_id |-> "p1"] :
        tr \in TransitionLists("p1"), k \in 0..MaxKills, d \in 0..MaxDeaths}

\* create_analysis(session, game): game.players are p1 and p2, game.events
\* the transitions of both and a kill of p2 by p1
CreateAnalysisArgs ==
    {[fn |-> "create_analysis", game |-> FullMatch,
      evs |-> tr1 \o tr2 \o <<KillBy("s1", 500, "p1", "p2")>>,
      players |-> Players] :
        tr1 \in TransitionLists("p1"),
        tr2 \in {f \in TransitionLists("p2") : Len(f) <= 2}}

\* the kills of a match: at two moments, of either type, by either player
\* on either player, with one of two weapons
KillEvents ==
    {KillWith("s1", t, ty, k, v, w) :
        t \in {5, 7}, ty \in {"KILL", "TEAM KILL"},
        k \in Players, v \in Players, w \in {"MP40", "M1 GARAND"}}

KillLists == UNION {[1..n -> KillEvents] : n \in 0..MaxKillEvents}

\* calc_player_stats(game, player_id) read for its maps, game.events being
\* kills only
DistributionArgs ==
    {[fn |-> "distributions", game |-> FullMatch, evs |-> f, player_id |-> "p1"] :
        f \in KillLists}

\* all_pl_kill_distribution(game) and the totals game_analysis makes of it,
\* read for one player
AllPlArgs ==
    {[fn |-> "all_pl_kill_distribution",
      game |-> [date |-> 0,
                logs |-> <<MatchStart("s1", 0)>> \o f \o <<FullMatchEnd>>],
      player_id |-> "p1"] :
        f \in KillLists}

\* game_analysis(game, file_stem) read for the scores of the match: p1 and
\* p2 connect and disconnect, p1 kills p2, p2 kills p1 and p3 kills p1
ScoreArgs ==
    {[fn |-> "scores",
      game |-> [date |-> 0,
                logs |-> <<MatchStart("s1", 0)>> \o tr1 \o tr2
                            \o [i \in 1..k1 |-> KillBy("s1", 300 + i, "p1", "p2")]
                            \o [i \in 1..k2 |-> KillBy("s1", 600 + i, "p2", "p1")]
                            \o [i \in 1..k3 |-> KillBy("s1", 900 + i, "p3", "p1")]
                            \o <<FullMatchEnd>>]] :
        tr1 \in {f \in TransitionLists("p1") : Len(f) <= 2},
        tr2 \in {f \in TransitionLists("p2") : Len(f) <= 1},
        k1 \in 0..MaxPairKills, k2 \in 0..MaxPairKills, k3 \in 0..1}

\* get_plot_from_analysis_list(list, {}, None): up to MaxAnalyses analyses
\* with start dates of their own in either order, each seeding or not,
\* incomplete or not, with some of the players; the values of an analysis
\* differ from those of the others
MetricValue(grab, i) == IF grab = "list kpm" THEN i ELSE 10 + i

AnalysisLists ==
    UNION {{[i \in 1..n |->
                [start_date |-> date[i], seeding |-> seeding[i],
                 incomplete |-> incomplete[i], players |-> players[i],
                 metrics |-> [grab \in Grabs |->
                                [x \in players[i] |-> MetricValue(grab, i)]]]] :
               date \in {d \in [1..n -> 1..n] : \A i, j \in 1..n : d[i] = d[j] => i = j},
               seeding \in [1..n -> BOOLEAN], incomplete \in [1..n -> BOOLEAN],
               players \in [1..n -> (SUBSET Players) \ {{}}]} :
           n \in 1..MaxAnalyses}

PlotArgs == {[fn |-> "get_plot_from_analysis_list", list |-> l] : l \in AnalysisLists}

CallArgs ==
    PlotArgs \cup CloseMatchArgs \cup FetchArgs \cup IngestArgs \cup CalcArgs \cup ShortCalcArgs
        \cup GameAnalysisArgs
        \cup CreateAnalysisArgs \cup DistributionArgs \cup AllPlArgs \cup ScoreArgs

CallInit ==
    /\ folder = <<>>
    /\ db = EmptyDb
    /\ last_nums = NoNums
    /\ active_games = NoGames
    /\ pc = "stopped"
    /\ idx = 1
    /\ nskipped = 0
    /\ run_db0 = EmptyDb
    /\ torn = FALSE
    /\ args \in CallArgs
    /\ result = None
    /\ loop = None

CallCloseMatch ==
    /\ args.fn = "close_match"
    /\ result = None
    /\ result' = Some(CloseMatchCall(args.ev, args.game))
    /\ UNCHANGED <<pipeline, args, loop>>

CallFetchPlayerMetrics ==
    /\ args.fn = "fetch_player_metrics_by_game"
    /\ result = None
    /\ result' = Some(FetchPlayerMetricsByGame(args.store, args.player_id,
                                                args.exclude_seeding))
    /\ UNCHANGED <<pipeline, args, loop>>

\* ingest_batch and the session.commit() that follows it in run_sql_pipeline:
\* whether an exception left ingest_batch, the session, and the store after
\* it (an exception ends the run before the commit)
BatchOutcomes(store, res) ==
    {[raised |-> res.session.raised, session |-> res.session, db |-> d] :
        d \in IF res.session.raised THEN Unfinished(store, res) ELSE {res.db}}

CallIngestBatch ==
    /\ args.fn = "ingest_batch"
    /\ result = None
    /\ result' \in
          {Some(o) : o \in BatchOutcomes(EmptyDb,
                        IngestBatchResult([i \in 1..Len(args.files) |-> i],
                                          args.files, EmptyDb, NoNums, NoGames))}
    /\ UNCHANGED <<pipeline, args, loop>>

CallCalcPlayerStats ==
    /\ args.fn = "calc_player_stats"
    /\ result = None
    /\ result' = Some(CalcPlayerStats(args.game, args.evs, args.player_id))
    /\ UNCHANGED <<pipeline, args, loop>>

CallGameAnalysis ==
    /\ args.fn = "game_analysis"
    /\ result = None
    /\ result' = Some(GameAnalysis(args.logs, args.player_id))
    /\ UNCHANGED <<pipeline, args, loop>>

\* create_analysis in a new session: the GameAnalysis rows of the session
\* after the call, the returned one or none
CallCreateAnalysis ==
    /\ args.fn = "create_analysis"
    /\ result = None
    /\ result' = Some(AnalysisOf(NewSession(EmptyDb, NoNums, NoGames),
                                  args.game.game_key, args.game, args.evs,
                                  args.players).analyses)
    /\ UNCHANGED <<pipeline, args, loop>>

CallDistributions ==
    /\ args.fn = "distributions"
    /\ result = None
    /\ result' = Some(PlayerMaps(args.game, args.evs, args.player_id))
    /\ UNCHANGED <<pipeline, args, loop>>

CallAllPlKillDistribution ==
    /\ args.fn = "all_pl_kill_distribution"
    /\ result = None
    /\ result' = Some(LegacyMaps(args.game, args.player_id))
    /\ UNCHANGED <<pipeline, args, loop>>

CallGameScores ==
    /\ args.fn = "scores"
    /\ result = None
    /\ result' = Some(GameScores(args.game))
    /\ UNCHANGED <<pipeline, args, loop>>

\* the list given to get_plot_from_analysis_list in one call, and the same
\* analyses given file by file by _generate_monthly_plots
CallGetPlot ==
    /\ args.fn = "get_plot_from_analysis_list"
    /\ result = None
    /\ result' = Some([list |-> GetPlotFromAnalysisList(args.list, NoPlot, None,
                                                        FALSE, FALSE),
                       monthly |-> GenerateMonthlyPlots(args.list, None)])
    /\ UNCHANGED <<pipeline, args, loop>>

CallNext ==
    \/ CallGetPlot
    \/ CallCreateAnalysis
    \/ CallCloseMatch
    \/ CallFetchPlayerMetrics
    \/ CallIngestBatch
    \/ CallCalcPlayerStats
    \/ CallGameAnalysis
    \/ CallDistributions
    \/ CallAllPlKillDistribution
    \/ CallGameScores

CallSpec == CallInit /\ [][CallNext]_vars

----------------------------------------------------------------------------
\* data_acquisition/talk_to_server.py: download_sequential_logs(folder,
\* _from, till) against a remote log.  A moment is a number, an event is the
\* moment of its event_time, and the file "<moment>.json" is the entry of
\* that moment in `files`.  `loop` holds the remote log, whether the remote
\* service counts the bound from_ in, the folder, _from and till, and the
\* number of requests sent so far, kept modulo 2: it tells one turn of the
\* loop from the next when the turn leaves the folder and _from as they were.

\* the date of a moment: the first ten characters of its ISO string
Day(t) == t \div DayLength

\* `_from < till` on the strings: _from is written with "T" and till (strftime
\* "%Y-%m-%d %H:%M:%S") with " " after the date, so with equal dates _from is
\* the greater string
FromBeforeTill(from, till) == Day(from) < Day(till)

\* sorted(data["result"], key=event_time), the events being their moments
RECURSIVE SortedMoments(_)
SortedMoments(S) ==
    IF S = {} THEN <<>>
    ELSE <<CHOOSE x \in S : \A y \in S : x <= y>>
            \o SortedMoments(S \ {CHOOSE x \in S : \A y \in S : x <= y})

\* get_historical_log(_from, date_to): the events of the remote log from
\* from_ to till, the bound from_ counted in or not
GetHistoricalLog(remote, inclusive, from, to) ==
    {t \in remote : (IF inclusive THEN from <= t ELSE from < t) /\ t <= to}

\* get_last_log_entry: the last file of the folder by its name
LastFile(files) == files[Max(DOMAIN files)]

\* out_file.open("w") and json.dump: the file of that name is written anew
WriteFile(files, name, data) ==
    [n \in DOMAIN files \cup {name} |-> IF n = name THEN data ELSE files[n]]

\* the body of the loop with _from read from the last file
FetchFrom(l, from) ==
    [l EXCEPT !.from = from,
              !.requests = (@ + 1) % 2,
              !.files = WriteFile(@, from,
                            SortedMoments(GetHistoricalLog(l.remote, l.inclusive,
                                                           from, from + DayLength)))]

\* run_data_pipeline: the folder holds a file with the event of moment 0,
\* _from is its event_time, till is yesterday or now
DownloadInit ==
    /\ folder = <<>>
    /\ db = EmptyDb
    /\ last_nums = NoNums
    /\ active_games = NoGames
    /\ pc = "stopped"
    /\ idx = 1
    /\ nskipped = 0
    /\ run_db0 = EmptyDb
    /\ torn = FALSE
    /\ args = None
    /\ result = None
    /\ loop \in {[remote |-> r \cup {0}, inclusive |-> i, files |-> [n \in {0} |-> <<0>>],
                   from |-> 0, till |-> t, requests |-> 0, pc |-> "loop"] :
                    r \in SUBSET (1..MaxTime), i \in BOOLEAN, t \in 0..MaxTime}

\* one turn of the loop: the test of the while, get_last_log_entry, the
\* request and the file
FetchLogs ==
    /\ loop.pc = "loop"
    /\ FromBeforeTill(loop.from, loop.till)
    /\ LastFile(loop.files) # <<>>
    /\ loop' = FetchFrom(loop, LastFile(loop.files)[Len(LastFile(loop.files))])
    /\ UNCHANGED <<pipeline, args, result>>

\* get_last_log_entry on a last file without entries: logs[-1] raises IndexError
LastEntryRaises ==
    /\ loop.pc = "loop"
    /\ FromBeforeTill(loop.from, loop.till)
    /\ LastFile(loop.files) = <<>>
    /\ loop' = [loop EXCEPT !.pc = "raised"]
    /\ UNCHANGED <<pipeline, args, result>>

\* the test of the while fails: the function returns
ExitLoop ==
    /\ loop.pc = "loop"
    /\ ~FromBeforeTill(loop.from, loop.till)
    /\ loop' = [loop EXCEPT !.pc = "done"]
    /\ UNCHANGED <<pipeline, args, result>>

DownloadNext == FetchLogs \/ LastEntryRaises \/ ExitLoop

\* the process runs on while it has a step to take
DownloadSpec == DownloadInit /\ [][DownloadNext]_vars /\ WF_vars(DownloadNext)

----------------------------------------------------------------------------
\* legacy_json/analysis_utils.py: the seeding test of the JSON pipeline.

\* is_seeding: "if counter > 3"
SeedingThreshold == 3

IsSeeding(logs) ==
    Cardinality({i \in 1..Len(logs) :
        logs[i].type = "MESSAGE" /\ HasSeedingPhrase(logs[i].content)})
        > SeedingThreshold

----------------------------------------------------------------------------
\* What the properties below speak of.

\* the step of IngestBatch that commits a batch, and the files of the batch
IsIngestStep == pc = "running" /\ pc' = "running" /\ idx' = idx + BATCH_SIZE

StepPaths == Range(BatchPaths(idx, folder))

\* the game_key of the stored row of an event
StoredKey(store, ev) ==
    store.events[CHOOSE i \in 1..Len(store.events) : store.events[i].ev = ev].game_key

IsStored(store, ev) == \E i \in 1..Len(store.events) : store.events[i].ev = ev

\* the events of the game's stored rows
LinkedEvents(store, key) == EventsOf(GameEvents(store.events, key))

GamesOn(store, s) == {i \in 1..Len(store.games) : store.games[i].server = s}

\* the first and the last entry of a corrected transition list
FirstOf(times) == times[1]

LastOf(times) == times[Len(times)]

\* the events of `type` that name the player as the actor of number `actor`
\* (1: player1_id, 2: player2_id), all of them or those `offset` seconds
\* after start_time
ActorEvents(evs, type, player_id, actor) ==
    {i \in 1..Len(evs) :
        /\ evs[i].type = type
        /\ (IF actor = 1 THEN evs[i].player1_id ELSE evs[i].player2_id) = player_id}

\* the map d holds one entry per such event, under the event's offset
OneEntryPerEvent(d, evs, start_time, type, player_id, actor) ==
    \A k \in DOMAIN d \cup {evs[i].time - start_time : i \in 1..Len(evs)} :
        Len(Get(d, k)) =
            Cardinality({i \in ActorEvents(evs, type, player_id, actor) :
                            evs[i].time - start_time = k})

\* the KPM of player x in the analysis r of a match: total kills per
\* connected minute, 0 for no connected seconds
KpmOf(r, x) == PerMinute(r.total_kills[x], r.players_game_time[x])

\* the players of the match with a strictly lower KPM than x
LowerKpm(r, x) == {y \in r.players : FracLess(KpmOf(r, y), KpmOf(r, x))}

\* the kills of all players of the match, added up
AllKills(r) == Total(r.total_kills)

\* the kills of player x on player v among the logs
KillsOn(logs, x, v) ==
    Cardinality({i \in 1..Len(logs) :
        logs[i].type = "KILL" /\ logs[i].player1_id = x /\ logs[i].player2_id = v})

\* the growth factor of player x: (connected seconds / duration) ^ 0.45 x KPM
GrowthFactor(r, x) ==
    [base |-> Frac(r.players_game_time[x], r.game_time), exp |-> <<9, 20>>,
     factor |-> KpmOf(r, x)]

\* the analysis records of the store for a Game
AnalysesOf(store, key) ==
    {i \in 1..Len(store.analyses) : store.analyses[i].game_key = key}

\* what MATCH ENDED has fixed of a Game, and its seeding flag
Finalized(g) ==
    <<g.ended, g.end_time, g.duration, g.allied_score, g.axis_score, g.winner,
      g.seeding>>

----------------------------------------------------------------------------
\* Properties.

(* C1: a server has one entry in the open-games table, and a Game that a     *)
(* later MATCH START on its server has replaced is discarded for good: it    *)
(* is never again the server's entry of the table, the only Game that        *)
(* receives events or is closed.  So the entry of a server is always the     *)
(* newest Game of that server.                                               *)
C1_ReplacedGameStaysDiscarded ==
    \A s \in Servers :
        active_games[s] # None =>
            \A i \in GamesOn(db, s) : db.games[i].game_number <= active_games[s][2]

(* C2: once a MATCH ENDED has closed the Game of a server, the server is     *)
(* Idle: its entry of the open-games table is no closed Game.                *)
C2_IdleAfterMatchEnded ==
    \A s \in Servers :
        active_games[s] # None => ~GameOf(db.games, active_games[s]).ended

(* C3: the events linked to a closed Game are of its server and lie between  *)
(* its start_time and its end_time; the first of them is its MATCH START     *)
(* and the last its MATCH ENDED.                                             *)
C3_SliceBoundedByOwnMatch ==
    \A i \in 1..Len(db.games) :
        db.games[i].ended =>
            LET g == db.games[i]
                evs == LinkedEvents(db, g.game_key)
            IN  /\ \A k \in 1..Len(evs) :
                      /\ evs[k].server = g.server
                      /\ g.start_time <= evs[k].time
                      /\ evs[k].time <= g.end_time[1]
                /\ Len(evs) >= 2
                /\ evs[1].type = "MATCH START" /\ evs[1].time = g.start_time
                /\ evs[Len(evs)].type = "MATCH ENDED"
                /\ evs[Len(evs)].time = g.end_time[1]

(* C4: ingesting a batch whose files are all marked as processed changes     *)
(* nothing: not the store (events, Games, statistics, players, links,        *)
(* markers) and not the per-server sequence numbers.                         *)
C4_RerunIsNoOp ==
    [][(IsIngestStep /\ \A f \in StepPaths : f \in db.files)
          => (db' = db /\ last_nums' = last_nums)]_vars

\* a second run has gone over a folder whose files the store had all ingested
C4_Witness ==
    /\ pc = "running"
    /\ idx > Len(folder)
    /\ Len(folder) >= 2
    /\ nskipped = Len(folder)
    /\ Len(db.games) >= 1
    /\ Len(db.analyses) >= 1

(* C5: a batch that brings only events whose identifiers the store already   *)
(* holds is ignored: no Game is opened, closed or modified, no sequence      *)
(* number is consumed, no statistics record is added, the event rows stay.   *)
C5_DuplicateEventsIgnored ==
    [][(/\ IsIngestStep
        /\ \A f \in StepPaths \ db.files :
              \A k \in 1..Len(folder[f]) : IsStored(db, folder[f][k]))
          => (/\ db'.games = db.games
              /\ db'.analyses = db.analyses
              /\ db'.events = db.events
              /\ last_nums' = last_nums)]_vars

(* C6: a run that is stopped in a batch leaves in the store all that the     *)
(* batch derives or nothing of it, and once the pipeline has been run again  *)
(* from the top to its end, the store is the one that a run which nothing    *)
(* stops would have left.                                                    *)
C6_AllOrNothingThenRetry ==
    [][/\ (pc = "running" /\ pc' = "crashed") => db' \in {db, StepResult.db}
       /\ (pc = "running" /\ pc' = "done") => db = CompleteRun(folder, run_db0)]_vars

(* C7: an event processed while its server has an entry in the open-games    *)
(* table is stored with that Game's key, whatever its type; an event         *)
(* processed while its server has none is stored with no key and changes no  *)
(* Game.                                                                     *)
C7_EventsCarryOpenGameKey ==
    [][IsIngestStep =>
          \A i \in 1..Len(StepResult.session.trace) :
              LET t == StepResult.session.trace[i]
              IN  /\ StoredKey(db', t.ev) =
                        IF t.open # None THEN Some(t.open) ELSE None
                  /\ t.open = None => ~t.changed]_vars

(* C8: the Games of a server carry the numbers 1, 2, 3, ... in the order in  *)
(* which they were opened, no two Games share a key, and while a run is on,  *)
(* the counter of a server is its highest number, also after the counters    *)
(* were read back from the store.                                            *)
C8_SequenceNumbers ==
    /\ \A i \in 1..Len(db.games) :
          /\ db.games[i].game_number =
                Cardinality({j \in GamesOn(db, db.games[i].server) : j <= i})
          /\ db.games[i].game_key = <<db.games[i].server, db.games[i].game_number>>
    /\ \A i, j \in 1..Len(db.games) :
          i # j => db.games[i].game_key # db.games[j].game_key
    /\ pc = "running" =>
          \A s \in Servers : last_nums[s] = Cardinality(GamesOn(db, s))

\* a run that skipped an ingested file with a MATCH START has numbered the
\* MATCH START of a new file of the same server
C8_Witness ==
    /\ pc = "running"
    /\ Len(folder) = 2
    /\ idx > Len(folder)
    /\ nskipped = 1
    /\ \E s \in Servers :
          /\ \E t \in {0, 1} : \E k \in 1..Len(folder[1]) : folder[1][k] = MatchStart(s, t)
          /\ \E t \in {0, 1} : \E k \in 1..Len(folder[2]) : folder[2][k] = MatchStart(s, t)
          /\ last_nums[s] >= 2

(* C9: a closed Game has duration = end_time - start_time, and that is >= 0. *)
C9_DurationNonNegative ==
    \A i \in 1..Len(db.games) :
        db.games[i].ended =>
            /\ db.games[i].duration = Some(db.games[i].end_time[1] - db.games[i].start_time)
            /\ db.games[i].duration[1] >= 0

(* C10: a Game is seeding exactly when more than 3 MESSAGE events with the   *)
(* seeding phrase were observed for it.                                      *)
C10_SeedingAfterThreshold ==
    \A i \in 1..Len(db.games) :
        db.games[i].seeding = IsSeeding(LinkedEvents(db, db.games[i].game_key))

(* C11: a MATCH ENDED whose score reads (allied, axis) gives the winner:     *)
(* the allied side when allied > axis, the axis side when axis > allied,     *)
(* and no winner (null) when the two scores are equal.                       *)
C11_WinnerFromScore ==
    (args # None /\ args.fn = "close_match" /\ result # None
        /\ ParseScore(args.ev.content) # None) =>
        result[1].game.winner =
            IF ParseScore(args.ev.content)[1][1] > ParseScore(args.ev.content)[1][2]
            THEN Some("allies")
            ELSE IF ParseScore(args.ev.content)[1][2] > ParseScore(args.ev.content)[1][1]
            THEN Some("axis")
            ELSE None

(* C12: a Game that is not ended, or is seeding, or whose allied and axis    *)
(* scores are equal gives no row to the per-player series across matches    *)
(* unless the caller asks to include seeding/incomplete matches.            *)
C12_InvalidGamesNotAggregated ==
    (args.fn = "fetch_player_metrics_by_game" /\ result # None
        /\ args.exclude_seeding) =>
        \A r \in result[1] :
            /\ GameOf(args.store.games, r.game_key).ended
            /\ ~GameOf(args.store.games, r.game_key).seeding
            /\ GameOf(args.store.games, r.game_key).allied_score
                  # GameOf(args.store.games, r.game_key).axis_score

\* the batch holds a decodable file with a MATCH ENDED whose score cannot be
\* read, and no file that cannot be decoded
HasUnreadableScore(files) ==
    /\ \A i \in 1..Len(files) : IsDecodable(files[i])
    /\ \E i \in 1..Len(files) : \E k \in 1..Len(files[i]) :
          files[i][k].type = "MATCH ENDED" /\ ParseScore(files[i][k].content) = None

(* C13: a MATCH ENDED whose content holds no score that can be read still    *)
(* closes the open Game (end_time, ended, duration), leaves allied_score,    *)
(* axis_score and winner null, lets no error escape, and the events after    *)
(* it are ingested.                                                          *)
C13_UnreadableScoreStillCloses ==
    (/\ args.fn = "ingest_batch"
     /\ result # None
     /\ HasUnreadableScore(args.files)
     /\ Len(args.files[1]) >= 3
     /\ args.files[1][3].type = "MATCH ENDED"
     /\ ParseScore(args.files[1][3].content) = None) =>
        /\ ~result[1].raised
        /\ \A i \in 1..Len(args.files) : \A k \in 1..Len(args.files[i]) :
              IsStored(result[1].db, args.files[i][k])
        /\ Len(result[1].db.games) >= 1
        /\ result[1].db.games[1].ended
        /\ result[1].db.games[1].end_time = Some(args.files[1][3].time)
        /\ result[1].db.games[1].duration =
              Some(args.files[1][3].time - args.files[1][1].time)
        /\ result[1].db.games[1].allied_score = None
        /\ result[1].db.games[1].axis_score = None
        /\ result[1].db.games[1].winner = None

(* C14: a file of a batch that cannot be decoded is skipped alone: the       *)
(* other files of the batch are processed and committed, and the file that   *)
(* cannot be decoded gets no processed-file marker.                          *)
C14_UndecodableFileSkipped ==
    (/\ args.fn = "ingest_batch"
     /\ result # None
     /\ \E i \in 1..Len(args.files) : ~IsDecodable(args.files[i])
     /\ \A j \in 1..Len(args.files) : \A k \in 1..Len(args.files[j]) :
           args.files[j][k].type = "MATCH ENDED" =>
               ParseScore(args.files[j][k].content) # None) =>
        /\ ~result[1].raised
        /\ \A i \in 1..Len(args.files) :
              IF IsDecodable(args.files[i])
              THEN /\ i \in result[1].db.files
                   /\ \A k \in 1..Len(args.files[i]) :
                         IsStored(result[1].db, args.files[i][k])
              ELSE i \notin result[1].db.files

(* C15: the connected seconds of a player count connected time only: for   *)
(* a corrected transition list of even length they are the sum of            *)
(* (disconnect time - connect time) over the pairs (1st, 2nd), (3rd, 4th),   *)
(* ..., without the time between a DISCONNECTED and the next CONNECTED.      *)
C15_ConnectedSecondsOverDisjointPairs ==
    /\ (/\ args.fn = "calc_player_stats"
        /\ result # None
        /\ HasTransitions(args.evs, args.player_id)
        /\ Len(CorrectedTimes(args.game, args.evs, args.player_id)) % 2 = 0) =>
            /\ result[1] # None
            /\ result[1][1].time_played_seconds =
                  SeqSum([i \in 1..(Len(CorrectedTimes(args.game, args.evs,
                                                       args.player_id)) \div 2) |->
                      CorrectedTimes(args.game, args.evs, args.player_id)[2 * i].time
                      - CorrectedTimes(args.game, args.evs, args.player_id)[2 * i - 1].time])
    /\ (/\ args.fn = "game_analysis"
        /\ result # None
        /\ Len(LegacyConnections(args.logs, args.player_id)) % 2 = 0) =>
            result[1].time_played =
                SeqSum([i \in 1..(Len(LegacyConnections(args.logs, args.player_id)) \div 2) |->
                    LegacyConnections(args.logs, args.player_id)[2 * i].time
                    - LegacyConnections(args.logs, args.player_id)[2 * i - 1].time])

(* C16: when the earliest CONNECTED/DISCONNECTED event of a player in a     *)
(* Game is a DISCONNECTED, the player's presence begins at start_time + 300  *)
(* seconds, not at start_time; when the latest is a CONNECTED, it ends at    *)
(* the Game's end_time.                                                      *)
C16_BoundaryCorrection ==
    /\ (/\ args.fn = "calc_player_stats"
        /\ result # None
        /\ HasTransitions(args.evs, args.player_id)) =>
            /\ FirstOf(TransitionsOf(args.evs, args.player_id)).type = "DISCONNECTED" =>
                  FirstOf(CorrectedTimes(args.game, args.evs, args.player_id)) =
                      [time |-> args.game.start_time + WarmupSeconds, type |-> "CONNECTED"]
            /\ LastOf(TransitionsOf(args.evs, args.player_id)).type = "CONNECTED" =>
                  LastOf(CorrectedTimes(args.game, args.evs, args.player_id)) =
                      [time |-> args.game.end_time[1], type |-> "DISCONNECTED"]
    /\ (/\ args.fn = "game_analysis"
        /\ result # None
        /\ TransitionsOf(args.logs, args.player_id) # <<>>) =>
            /\ FirstOf(TransitionsOf(args.logs, args.player_id)).type = "DISCONNECTED" =>
                  FirstOf(LegacyConnections(args.logs, args.player_id)) =
                      [time |-> StartEnd(args.logs)[1].time + WarmupSeconds,
                       type |-> "CONNECTED"]
            /\ LastOf(TransitionsOf(args.logs, args.player_id)).type = "CONNECTED" =>
                  LastOf(LegacyConnections(args.logs, args.player_id)) =
                      [time |-> StartEnd(args.logs)[2].time, type |-> "DISCONNECTED"]

(* C17: for a closed Game and a player for whom statistics are produced,    *)
(* the presence intervals of the player are ordered and do not overlap (the  *)
(* times of the corrected transitions never go back), and the total          *)
(* connected seconds are not more than the duration of the Game.             *)
C17_PresenceWithinGame ==
    /\ (/\ args.fn = "calc_player_stats"
        /\ result # None
        /\ result[1] # None) =>
            /\ HasTransitions(args.evs, args.player_id) =>
                  IsSortedByTime(CorrectedTimes(args.game, args.evs, args.player_id))
            /\ result[1][1].time_played_seconds <= args.game.duration[1]
    /\ (args.fn = "game_analysis" /\ result # None) =>
            /\ IsSortedByTime(LegacyConnections(args.logs, args.player_id))
            /\ result[1].time_played
                  <= StartEnd(args.logs)[2].time - StartEnd(args.logs)[1].time

\* the fraction q is count / (seconds / 60), seconds # 0
IsPerMinute(q, count, seconds) == q[1] * seconds = count * 60 * q[2]

\* the corrected transitions of the player are odd in number
OddTransitions(game, evs, player_id) ==
    /\ HasTransitions(evs, player_id)
    /\ Len(CorrectedTimes(game, evs, player_id)) % 2 # 0

(* C18: a player whose corrected transitions in a Game are odd in number    *)
(* gets the invalid result (None) from the Presence Tracker and no           *)
(* statistics record for that Game; every other player of the Game gets      *)
(* one, and the Game's analysis is created.                                  *)
C18_OddTransitionsSkipPlayerOnly ==
    (args.fn = "create_analysis" /\ result # None) =>
        /\ Len(result[1]) = 1
        /\ result[1][1].game_key = args.game.game_key
        /\ \A q \in args.players :
              IF OddTransitions(args.game, args.evs, q)
              THEN /\ CalcPlayerStats(args.game, args.evs, q) = None
                   /\ \A r \in result[1][1].player_stats : r.player_id # q
              ELSE /\ CalcPlayerStats(args.game, args.evs, q) # None
                   /\ \E r \in result[1][1].player_stats : r.player_id = q

\* create_analysis has returned for a Game in which p1 has CONNECTED,
\* CONNECTED, DISCONNECTED and p2 has even transitions: the analysis holds a
\* record of p2 and none of p1
C18_Witness ==
    /\ args.fn = "create_analysis"
    /\ result # None
    /\ Len(TransitionsOf(args.evs, "p1")) = 3
    /\ OddTransitions(args.game, args.evs, "p1")
    /\ ~OddTransitions(args.game, args.evs, "p2")
    /\ HasTransitions(args.evs, "p2")
    /\ Len(result[1]) = 1
    /\ \E r \in result[1][1].player_stats : r.player_id = "p2"
    /\ \A r \in result[1][1].player_stats : r.player_id # "p1"

(* C19: KPM = total_kills / (connected_seconds / 60) and DPM =               *)
(* total_deaths / (connected_seconds / 60); both are 0 when                  *)
(* connected_seconds is 0, whatever the counts; a player connected for 1800  *)
(* seconds with 10 kills and 5 deaths has KPM = 10/30 and DPM = 5/30.        *)
C19_PerMinuteMetrics ==
    /\ (/\ args.fn = "calc_player_stats"
        /\ result # None
        /\ result[1] # None) =>
            /\ result[1][1].time_played_seconds = 0 =>
                  result[1][1].kpm = <<0, 1>> /\ result[1][1].dpm = <<0, 1>>
            /\ result[1][1].time_played_seconds # 0 =>
                  /\ IsPerMinute(result[1][1].kpm, result[1][1].tot_kills,
                                 result[1][1].time_played_seconds)
                  /\ IsPerMinute(result[1][1].dpm, result[1][1].tot_deaths,
                                 result[1][1].time_played_seconds)
            /\ (/\ result[1][1].time_played_seconds = 1800
                /\ result[1][1].tot_kills = 10
                /\ result[1][1].tot_deaths = 5) =>
                  result[1][1].kpm = <<1, 3>> /\ result[1][1].dpm = <<1, 6>>
    /\ (args.fn = "game_analysis" /\ result # None) =>
            /\ result[1].time_played = 0 =>
                  result[1].kpm = <<0, 1>> /\ result[1].dpm = <<0, 1>>
            /\ result[1].time_played # 0 =>
                  /\ IsPerMinute(result[1].kpm, result[1].tot_kills,
                                 result[1].time_played)
                  /\ IsPerMinute(result[1].dpm, result[1].tot_deaths,
                                 result[1].time_played)
            /\ (/\ result[1].time_played = 1800
                /\ result[1].tot_kills = 10
                /\ result[1].tot_deaths = 5) =>
                  result[1].kpm = <<1, 3>> /\ result[1].dpm = <<1, 6>>

(* C20: in every player statistics record, ratio = kills / deaths when       *)
(* deaths > 0 and ratio = kills when deaths = 0.                             *)
C20_KillDeathRatio ==
    /\ (/\ args.fn = "calc_player_stats"
        /\ result # None
        /\ result[1] # None) =>
            IF result[1][1].tot_deaths > 0
            THEN result[1][1].ratio[1] * result[1][1].tot_deaths
                    = result[1][1].tot_kills * result[1][1].ratio[2]
            ELSE result[1][1].ratio = <<result[1][1].tot_kills, 1>>
    /\ (args.fn = "game_analysis" /\ result # None) =>
            IF result[1].tot_deaths > 0
            THEN result[1].ratio[1] * result[1].tot_deaths
                    = result[1].tot_kills * result[1].ratio[2]
            ELSE result[1].ratio = <<result[1].tot_kills, 1>>

(* C21: the kills-dealt map of a player holds exactly one entry per KILL    *)
(* event of the Game whose first actor is the player, the deaths-received    *)
(* map one per KILL event whose second actor is the player (likewise TEAM    *)
(* KILL for team-kills and team-deaths), each under the seconds since the    *)
(* Game's start; the totals and the counts of the weapon histograms equal    *)
(* the numbers of those entries; a player without such events has empty      *)
(* maps and zero totals.                                                     *)
C21_MapsHoldOneEntryPerEvent ==
    /\ (args.fn = "distributions" /\ result # None) =>
          /\ OneEntryPerEvent(result[1].kill_distribution, args.evs,
                              args.game.start_time, "KILL", args.player_id, 1)
          /\ OneEntryPerEvent(result[1].death_distribution, args.evs,
                              args.game.start_time, "KILL", args.player_id, 2)
          /\ OneEntryPerEvent(result[1].team_kill_distribution, args.evs,
                              args.game.start_time, "TEAM KILL", args.player_id, 1)
          /\ OneEntryPerEvent(result[1].team_death_distribution, args.evs,
                              args.game.start_time, "TEAM KILL", args.player_id, 2)
          /\ result[1].tot_kills = Entries(result[1].kill_distribution)
          /\ result[1].tot_deaths = Entries(result[1].death_distribution)
          /\ result[1].tot_team_kills = Entries(result[1].team_kill_distribution)
          /\ result[1].tot_team_deaths = Entries(result[1].team_death_distribution)
          /\ Total(result[1].weapons_kills) = Entries(result[1].kill_distribution)
          /\ Total(result[1].weapons_deaths) = Entries(result[1].death_distribution)
    /\ (args.fn = "all_pl_kill_distribution" /\ result # None) =>
          /\ OneEntryPerEvent(result[1].kills_distribution, args.game.logs,
                              args.game.date, "KILL", args.player_id, 1)
          /\ OneEntryPerEvent(result[1].deaths_distribution, args.game.logs,
                              args.game.date, "KILL", args.player_id, 2)
          /\ OneEntryPerEvent(result[1].team_kills_distribution, args.game.logs,
                              args.game.date, "TEAM KILL", args.player_id, 1)
          /\ result[1].total_kills = Entries(result[1].kills_distribution)
          /\ result[1].total_deaths = Entries(result[1].deaths_distribution)
          /\ result[1].total_team_kills = Entries(result[1].team_kills_distribution)
          /\ Total(result[1].weapon_kills) = Entries(result[1].kills_distribution)
          /\ Total(result[1].weapon_deaths) = Entries(result[1].deaths_distribution)

(* C22: within a batch, the events reach the Segmenter in non-decreasing     *)
(* order of their event times, whatever the order of the records inside the  *)
(* files and whichever file of the batch a record came from.                 *)
C22_BatchEventsInTimeOrder ==
    (args.fn = "ingest_batch" /\ result # None) =>
        \A i \in 1..(Len(result[1].session.trace) - 1) :
            result[1].session.trace[i].ev.time
                <= result[1].session.trace[i + 1].ev.time

(* C23: for every player of a match, percentile_rank = (number of players  *)
(* of the match with strictly lower KPM) / (number of players), in [0,1];    *)
(* weighted KPM = (1 - (percentile_rank - 1)/100) x (player_kills /          *)
(* match_average_kills) x KPM, match_average_kills being the mean of all     *)
(* players' total kills, and 0 whenever that mean is 0.  With c players      *)
(* lower, n players and S kills in all, weighted KPM x 100 x S =             *)
(* (101 n - c) x player_kills x KPM.                                         *)
C23_WeightedKpm ==
    (args.fn = "scores" /\ result # None) =>
        \A x \in result[1].players :
            /\ result[1].percentile[x] =
                  Frac(Cardinality(LowerKpm(result[1], x)),
                       Cardinality(result[1].players))
            /\ ~FracLess(result[1].percentile[x], <<0, 1>>)
            /\ ~FracLess(<<1, 1>>, result[1].percentile[x])
            /\ AllKills(result[1]) = 0 => result[1].list_weighted_kpm[x] = <<0, 1>>
            /\ AllKills(result[1]) # 0 =>
                  result[1].list_weighted_kpm[x][1] * 100 * AllKills(result[1])
                        * KpmOf(result[1], x)[2]
                  = result[1].list_weighted_kpm[x][2]
                        * (101 * Cardinality(result[1].players)
                              - Cardinality(LowerKpm(result[1], x)))
                        * result[1].total_kills[x] * KpmOf(result[1], x)[1]

(* C24: the growth-factor score: gf = (player_connected_seconds /            *)
(* match_duration)^0.45 x KPM per player, and score = (sum over the          *)
(* player's victims of gf[victim] x kill count / total_kills)^0.65 x         *)
(* gf[player], with score = 0 when the player's total_kills is 0.            *)
C24_GrowthFactorScore ==
    (args.fn = "scores" /\ result # None) =>
        \A x \in result[1].players :
            /\ result[1].gfs[x] = GrowthFactor(result[1], x)
            /\ result[1].list_Apolo_kpm[x] =
                  IF result[1].total_kills[x] = 0 THEN ZeroScore
                  ELSE [sum |-> [v \in {y \in result[1].players :
                                          KillsOn(args.game.logs, x, y) > 0} |->
                                   [gf |-> GrowthFactor(result[1], v),
                                    times |-> KillsOn(args.game.logs, x, v)]],
                        over |-> result[1].total_kills[x],
                        exp |-> <<13, 20>>,
                        factor |-> GrowthFactor(result[1], x)]

(* C25: the statistics stored for a Game that MATCH ENDED has closed are     *)
(* computed from the whole event slice of the Game: the kill and death       *)
(* totals of each player equal the numbers of KILL events linked to the      *)
(* Game that name the player as first and as second actor, the events of     *)
(* the batch of the MATCH ENDED included.                                    *)
C25_StatisticsFromWholeSlice ==
    \A i \in 1..Len(db.analyses) :
        \A ps \in db.analyses[i].player_stats :
            /\ ps.tot_kills =
                  Cardinality(ActorEvents(LinkedEvents(db, db.analyses[i].game_key),
                                          "KILL", ps.player_id, 1))
            /\ ps.tot_deaths =
                  Cardinality(ActorEvents(LinkedEvents(db, db.analyses[i].game_key),
                                          "KILL", ps.player_id, 2))

(* C26: once a Game is closed (ended = true), no later event changes its    *)
(* end_time, duration, scores, winner or seeding flag, and at most one       *)
(* analysis record is ever created for it; a second MATCH ENDED on the same  *)
(* server with no MATCH START in between changes nothing.                    *)
C26_ClosedGameIsFinal ==
    [][\A i \in 1..Len(db.games) :
          (db.games[i].ended /\ i <= Len(db'.games)) =>
              /\ Finalized(db'.games[i]) = Finalized(db.games[i])
              /\ Cardinality(AnalysesOf(db', db.games[i].game_key)) <= 1]_vars

(* C27: splitting a run is invisible: when the files of the folder have     *)
(* been ingested by several runs, each stopped between two batches or ended  *)
(* before the later files came, the store holds the Games, the event links   *)
(* and the statistics that one run over the whole folder gives; and the      *)
(* Game that a new run finds open on a server is the newest Game of that     *)
(* server, never an older Game that was left with ended = false.             *)
C27_SplitRunIsInvisible ==
    [][/\ (pc = "running" /\ pc' = "done" /\ ~torn) =>
              db = CompleteRun(folder, EmptyDb)
       /\ (pc # "running" /\ pc' = "running" /\ ~torn) =>
              \A s \in Servers :
                  active_games'[s] # None =>
                      \A i \in GamesOn(db, s) :
                          db.games[i].game_number <= active_games'[s][2]]_vars

(* C28: for every Game and every player for whom statistics are produced,   *)
(* the total connected seconds are >= 0, and so are KPM and DPM, also for    *)
(* Games shorter than the warm-up of 300 seconds and for players whose       *)
(* first DISCONNECTED lies before start_time + 300 seconds.                  *)
C28_ConnectedSecondsNonNegative ==
    (args.fn = "calc_player_stats" /\ result # None /\ result[1] # None) =>
        /\ result[1][1].time_played_seconds >= 0
        /\ result[1][1].kpm[1] >= 0
        /\ result[1][1].dpm[1] >= 0

(* C29: download_sequential_logs terminates: for any finite remote log and  *)
(* any responses of the remote service, an empty result or a result whose    *)
(* latest event is at the cursor time among them, the loop                   *)
(* `while _from < till` is left after finitely many fetches.                 *)
C29_DownloadTerminates == <>(loop # None /\ loop.pc \in {"done", "raised"})

\* the plot holds the values of every accepted analysis of the list
HoldsAccepted(plot, list) ==
    \A i \in 1..Len(list) :
        Accepted(list[i], FALSE, FALSE) =>
            \A x \in list[i].players, grab \in Grabs :
                /\ <<x, grab, list[i].start_date>> \in DOMAIN plot
                /\ plot[<<x, grab, list[i].start_date>>] = list[i].metrics[grab][x]

(* C30: called on a sequence of game analyses with no player filter,         *)
(* get_plot_from_analysis_list returns a result that holds, for every        *)
(* accepted (non-seeding, non-incomplete) analysis and every player of that  *)
(* analysis, the player's metric values under the start date of the          *)
(* analysis, whichever analysis came first; so does the result that          *)
(* _generate_monthly_plots builds file by file.                              *)
C30_PlotHoldsEveryAcceptedAnalysis ==
    (args.fn = "get_plot_from_analysis_list" /\ result # None) =>
        /\ HoldsAccepted(result[1].list, args.list)
        /\ HoldsAccepted(result[1].monthly, args.list)

====
